---- MODULE Spec2Model ----
(***************************************************************************)
(* Model of the PDF job-notification parser:                               *)
(*   app/services/pdf_parser.py  JobPDFParser (text extraction, model      *)
(*                               tier, regex fallback tier)                *)
(*   app/api/v1/routes.py        parse_pdf (the upload boundary)           *)
(*   app/schemas/job.py          JobData, JobSummaryResponse               *)
(*   app/main.py                 the import of the routes, load_dotenv     *)
(* Python strings are sequences of one-character strings, so that slicing, *)
(* regular-expression search and whitespace normalisation are computed.    *)
(***************************************************************************)
EXTENDS Integers, Sequences, FiniteSets, TLC

VARIABLES
    env_key,             \* OPENROUTER_API_KEY in the process environment
    dotenv,              \* OPENROUTER_API_KEY in the .env file
    booted,              \* main.py has run past load_dotenv()
    openrouter_api_key,  \* openrouter_api_key of the parser routes.py built
    via,                 \* via[r]: how call r enters, "http" or "direct"
    parser_key,          \* openrouter_api_key of the parser call r runs on
    upload,              \* upload[r]: the file request r carries
    reply,               \* reply[r]: what the model transport answers to r
    pc,                  \* pc[r]: where request r's handler stands
    loop,                \* the request running on the event loop (0: idle)
    raw_text,            \* parse_pdf_with_llm's local raw_text
    prompt_text,         \* the text slice placed in the prompt
    attempts,            \* calls of requests.post made for r
    slept,               \* time r spent waiting between model calls
    tier,                \* which tier produced r's dict
    job_info,            \* the dict the parser returned for r
    exc,                 \* the exception that left the parser for r
    response             \* what the boundary answered to r

vars == <<env_key, dotenv, booted, openrouter_api_key, via, parser_key, upload,
          reply, pc, loop, raw_text, prompt_text, attempts, slept, tier,
          job_info, exc, response>>

(***************************************************************************)
(* Bounds of the model.                                                    *)
(***************************************************************************)
NumRequests == 2
MaxPieces == 2
PadLen == 995

(***************************************************************************)
(* Program constants.                                                      *)
(***************************************************************************)
RawTextLimit == 1000
PromptLimit == 25000
MaxUploadBytes == 10485760

(***************************************************************************)
(* Strings.                                                                *)
(***************************************************************************)
Chars(s) == [i \in 1..Len(s) |-> SubSeq(s, i, i)]

Least(S) == CHOOSE x \in S : \A y \in S : x <= y

UpperLetters == Chars("ABCDEFGHIJKLMNOPQRSTUVWXYZ")
LowerLetters == Chars("abcdefghijklmnopqrstuvwxyz")
DigitChars == {"0", "1", "2", "3", "4", "5", "6", "7", "8", "9"}

ToLower ==
    [c \in {UpperLetters[i] : i \in 1..26} |->
        LowerLetters[CHOOSE i \in 1..26 : UpperLetters[i] = c]]

ToUpper ==
    [c \in {LowerLetters[i] : i \in 1..26} |->
        UpperLetters[CHOOSE i \in 1..26 : LowerLetters[i] = c]]

Lower(c) == IF c \in DOMAIN ToLower THEN ToLower[c] ELSE c

Upper(c) == IF c \in DOMAIN ToUpper THEN ToUpper[c] ELSE c

\* s[:n]
Take(s, n) == SubSeq(s, 1, IF Len(s) < n THEN Len(s) ELSE n)

\* The ASCII characters Python's \s and str.strip() treat as whitespace:
\* space, \t, \n, \r, \f, the vertical tab (0x0B) and the four separators
\* 0x1C-0x1F. The texts of the model are ASCII.
VerticalTab == ""
FileSeparator == ""
GroupSeparator == ""
RecordSeparator == ""
UnitSeparator == ""

Whitespace ==
    {" ", "\t", "\n", "\r", "\f", VerticalTab, FileSeparator, GroupSeparator,
     RecordSeparator, UnitSeparator}

\* str.strip()
Strip(s) ==
    LET n == Len(s)
        lead == CHOOSE d \in 0..n :
                    /\ d = n \/ s[d + 1] \notin Whitespace
                    /\ \A e \in 1..d : s[e] \in Whitespace
        trail == CHOOSE d \in 0..n :
                    /\ d = n \/ s[n - d] \notin Whitespace
                    /\ \A e \in 0..(d - 1) : s[n - e] \in Whitespace
    IN  IF lead = n THEN <<>> ELSE SubSeq(s, lead + 1, n - trail)

(***************************************************************************)
(* Regular expressions, as Python's re matches them with                   *)
(* re.IGNORECASE | re.DOTALL: a pattern is a sequence of elements, tried   *)
(* left to right with backtracking, alternatives and repetition counts in  *)
(* priority order. Group 1 is the one capture group of every pattern.      *)
(***************************************************************************)
AnyChar == [neg |-> TRUE, set |-> {}]
SpaceClass == [neg |-> FALSE, set |-> Whitespace]
NotSpaceClass == [neg |-> TRUE, set |-> Whitespace]
DigitClass == [neg |-> FALSE, set |-> DigitChars]
NewlineClass == [neg |-> FALSE, set |-> {"\n"}]
NotNewlineClass == [neg |-> TRUE, set |-> {"\n"}]
ColonDashClass == [neg |-> FALSE, set |-> {":", "-"}]
BlankClass == [neg |-> FALSE, set |-> {" "}]
CapitalClass == [neg |-> FALSE, set |-> {UpperLetters[i] : i \in 1..26}]

Lit(str) == [k |-> "lit", s |-> Chars(str)]
Rep(cls, min, many, greedy) ==
    [k |-> "rep", cls |-> cls, min |-> min, many |-> many, greedy |-> greedy]
Star(cls) == Rep(cls, 0, TRUE, TRUE)
Plus(cls) == Rep(cls, 1, TRUE, TRUE)
LazyStar(cls) == Rep(cls, 0, TRUE, FALSE)
LazyPlus(cls) == Rep(cls, 1, TRUE, FALSE)
Opt(cls) == Rep(cls, 0, FALSE, TRUE)
One(cls) == Rep(cls, 1, FALSE, TRUE)
Open == [k |-> "open"]
Close == [k |-> "close"]
Alt(alts) == [k |-> "alt", alts |-> alts]
Look(alts) == [k |-> "look", alts |-> alts]
Eos == [k |-> "eos"]

\* Membership in a character class under re.IGNORECASE.
InClass(c, cls) ==
    (c \in cls.set \/ Lower(c) \in cls.set \/ Upper(c) \in cls.set) # cls.neg

\* A literal at position i of s, compared case-insensitively.
LitAt(s, i, lit) ==
    /\ i + Len(lit) - 1 <= Len(s)
    /\ \A j \in 1..Len(lit) : Lower(s[i + j - 1]) = Lower(lit[j])

\* The length of the longest run of class members starting at position i.
RunLen(s, i, cls) ==
    LET stop == CHOOSE j \in i..(Len(s) + 1) :
                    /\ j = Len(s) + 1 \/ ~InClass(s[j], cls)
                    /\ \A q \in i..(j - 1) : InClass(s[q], cls)
    IN  stop - i

NoMatch == [ok |-> FALSE]

\* The element of a one-element set; {F(x) : x \in {v}} computes v once.
Only(S) == CHOOSE x \in S : TRUE

Config(elems, i, gs, ge) == [elems |-> elems, i |-> i, gs |-> gs, ge |-> ge]

\* The end of a lookahead: the position goes back to where it began.
Back(i) == [k |-> "back", to |-> i]

\* The counts a repetition tries over a run of `run` class members, in
\* priority order: a greedy one its longest first, a lazy one its shortest.
Counts(e, run) ==
    LET hi == IF e.many \/ run = 0 THEN run ELSE 1
    IN  [j \in 1..(hi - e.min + 1) |->
            IF e.greedy THEN hi - (j - 1) ELSE e.min + (j - 1)]

\* What may follow the first element of configuration c, numbered in
\* priority order: the elements still to match, the position and where
\* group 1 opened and closed.
Continuations(c, s) ==
    LET e == Head(c.elems)
        rest == Tail(c.elems)
    IN  CASE e.k = "lit" ->
               IF LitAt(s, c.i, e.s)
               THEN {<<1, Config(rest, c.i + Len(e.s), c.gs, c.ge)>>}
               ELSE {}
          [] e.k = "rep" ->
               UNION {{<<j, Config(rest, c.i + counts[j], c.gs, c.ge)>> :
                          j \in DOMAIN counts} :
                      counts \in {Counts(e, run) :
                                     run \in {RunLen(s, c.i, e.cls)}}}
          [] e.k = "open" -> {<<1, Config(rest, c.i, c.i, c.ge)>>}
          [] e.k = "close" -> {<<1, Config(rest, c.i, c.gs, c.i)>>}
          [] e.k = "alt" ->
               {<<b, Config(e.alts[b] \o rest, c.i, c.gs, c.ge)>> :
                   b \in 1..Len(e.alts)}
          [] e.k = "look" ->
               {<<b, Config(e.alts[b] \o <<Back(c.i)>> \o rest, c.i, c.gs, c.ge)>> :
                   b \in 1..Len(e.alts)}
          [] e.k = "back" -> {<<1, Config(rest, e.to, c.gs, c.ge)>>}
          [] e.k = "eos" ->
               IF c.i = Len(s) + 1 \/ (c.i = Len(s) /\ s[c.i] = "\n")
               THEN {<<1, Config(rest, c.i, c.gs, c.ge)>>}
               ELSE {}

\* Of the numbered successful results, the one with the least number.
LeastNumbered(good) ==
    IF good = {} THEN <<0, NoMatch>>
    ELSE CHOOSE p \in good : \A q \in good : p[1] <= q[1]

\* Of the numbered results, the successful one with the least number.
FirstMatch(results) ==
    Only({LeastNumbered(good) : good \in {{p \in results : p[2].ok}}})

\* The highest-priority way the elements of configuration c match s:
\* the first continuation, in priority order, from which the rest matches.
RECURSIVE MatchAt(_, _)
MatchAt(c, s) ==
    IF c.elems = <<>> THEN [ok |-> TRUE, end |-> c.i, gs |-> c.gs, ge |-> c.ge]
    ELSE FirstMatch({<<p[1], MatchAt(p[2], s)>> : p \in Continuations(c, s)})[2]

\* The match object of the numbered result `first`, numbered by its start.
MatchObject(first) ==
    IF ~first[2].ok THEN NoMatch
    ELSE [ok |-> TRUE, start |-> first[1], end |-> first[2].end,
          gs |-> first[2].gs, ge |-> first[2].ge]

\* re.search from position `from`: the leftmost match, with its start.
SearchFrom(pattern, s, from) ==
    Only({MatchObject(first) :
             first \in {FirstMatch({<<i, MatchAt(Config(pattern, i, 0, 0), s)>> :
                                       i \in from..(Len(s) + 1)})}})

\* re.search(pattern, text, re.IGNORECASE | re.DOTALL)
Search(pattern, s) == SearchFrom(pattern, s, 1)

\* match.group(1)
Group1(s, m) == SubSeq(s, m.gs, m.ge - 1)

\* re.sub(pattern, repl, s) for a pattern that matches no empty string:
\* sub[from] is the text from `from` on, with the next match m and every
\* later one replaced.
ReSub(pattern, repl, s) ==
    LET sub[from \in 1..(Len(s) + 1)] ==
            Only({IF ~m.ok THEN SubSeq(s, from, Len(s))
                  ELSE SubSeq(s, from, m.start - 1) \o repl \o sub[m.end] :
                     m \in {SearchFrom(pattern, s, from)}})
    IN  sub[1]


(***************************************************************************)
(* JobPDFParser.parse_pdf_with_regex and extract_field.                    *)
(***************************************************************************)
NotSpecified == Chars("Not specified")
None == [isNone |-> TRUE]
Some(v) == [isNone |-> FALSE, v |-> v]

FieldNames ==
    <<"job_title", "department", "vacancies", "eligibility", "salary",
      "application_deadline", "application_url">>

Fields == {FieldNames[i] : i \in 1..Len(FieldNames)}

\* The lookahead both section patterns end with: (?=\n\d+\.0|\n\n[A-Z])
NextSection ==
    Look(<< <<Lit("\n"), Plus(DigitClass), Lit(".0")>>,
            <<Lit("\n\n"), One(CapitalClass)>> >>)

\* The end of a title line: (?:\n|$)
EndOfLine == Alt(<< <<Lit("\n")>>, <<Eos>> >>)

patterns ==
    [job_title |->
        << <<Lit("recruitment for the post of"), Star(SpaceClass),
             Open, LazyPlus(AnyChar), Close, EndOfLine>>,
           <<Lit("RECRUITMENT OF "), Open, LazyPlus(AnyChar), Close, EndOfLine>>,
           <<Lit("CEN NO. "), Plus(DigitClass), Lit("/"), Plus(DigitClass),
             Lit(" ("), Open, LazyPlus(AnyChar), Close, Lit(")")>> >>,
     department |->
        << <<Open,
             Alt(<< <<Lit("government of india")>>,
                    <<Lit("ministry of "), LazyPlus(AnyChar)>>,
                    <<Lit("department of "), LazyPlus(AnyChar)>>,
                    <<Lit("railway recruitment board")>> >>),
             Close>> >>,
     vacancies |->
        << <<Lit("total vacancies"), Star(SpaceClass), Opt(ColonDashClass),
             Star(SpaceClass), Open, Plus(DigitClass), Close>>,
           <<Lit("grand total"), Star(SpaceClass), Opt(ColonDashClass),
             Star(SpaceClass), Open, Plus(DigitClass), Close>> >>,
     eligibility |->
        << <<Alt(<< <<Lit("5"), One(AnyChar), Lit("0"), Plus(SpaceClass),
                      Lit("AGE LIMIT")>>,
                    <<Lit("6"), One(AnyChar), Lit("0"), Plus(SpaceClass),
                      Lit("EDUCATIONAL QUALIFICATIONS")>> >>),
             Open, LazyPlus(AnyChar), Close, NextSection>> >>,
     salary |->
        << <<Alt(<< <<Lit("SCALE OF PAY")>>, <<Lit("PAY LEVEL")>> >>),
             Open, LazyPlus(AnyChar), Close, NextSection>> >>,
     application_deadline |->
        << <<Lit("closing date"), LazyStar(AnyChar), Lit("submission of"),
             LazyStar(AnyChar), Lit("application"), LazyStar(AnyChar),
             Opt(NewlineClass), Open, Plus(NotNewlineClass), Close>> >>,
     application_url |->
        << <<Lit("apply online through the website"), Star(SpaceClass),
             Open, Plus(NotSpaceClass), Close>> >>]

\* re.sub(r'\s+', ' ', captured).strip()
CollapseWhitespace(s) ==
    Only({Strip(spaced) : spaced \in {ReSub(<<Plus(SpaceClass)>>, <<" ">>, s)}})

\* Lines 37-39: the cleaned-up group of a match, None without one.
matched_group(text, match) ==
    IF match.ok
    THEN Some(Only({CollapseWhitespace(group) : group \in {Group1(text, match)}}))
    ELSE None

\* The value of the first of the patterns pats that matches; None when
\* none does.
first_matched(text, pats) ==
    Only({IF hits = {} THEN None
          ELSE Only({matched_group(text, match) :
                        match \in {Search(pats[Least(hits)], text)}}) :
             hits \in {{k \in 1..Len(pats) : Search(pats[k], text).ok}}})

\* extract_field trying the patterns in reverse order.
extract_field_reversed(text, pats) ==
    first_matched(text, [k \in 1..Len(pats) |-> pats[Len(pats) + 1 - k]])

\* Lines 32-40: the patterns are tried in list order.
extract_field(text, pats) == first_matched(text, pats)

\* The three cleaning statements of parse_pdf_with_regex.
clean_text(text) ==
    Only({Strip(lines) :
             lines \in {ReSub(<<Star(SpaceClass), Lit("\n"), Star(SpaceClass)>>,
                              <<"\n">>, spaces) :
                           spaces \in {ReSub(<<Plus(BlankClass)>>, <<" ">>, text)}}})

\* The final_job_info loop: None becomes the sentinel, the rest str(value).
fill_missing(value) == IF value.isNone THEN NotSpecified ELSE value.v

\* The dict parse_pdf_with_regex returns for extracted text `text`.
job_info_of(cleaned_text) ==
    [key \in Fields \cup {"raw_text"} |->
        IF key = "raw_text" THEN Take(cleaned_text, RawTextLimit)
        ELSE fill_missing(extract_field(cleaned_text, patterns[key]))]

regex_job_info(text) ==
    Only({job_info_of(cleaned_text) : cleaned_text \in {clean_text(text)}})


(***************************************************************************)
(* JobPDFParser.extract_all_text. A document is what PyMuPDF makes of the  *)
(* uploaded bytes: unreadable (fitz raises), or the text of its pages.     *)
(***************************************************************************)
Unreadable == [readable |-> FALSE, cause |-> Chars("cannot open broken document")]
Document(pages) == [readable |-> TRUE, pages |-> pages]

RECURSIVE pages_text(_, _)
pages_text(pages, k) ==
    IF k > Len(pages) THEN <<>>
    ELSE pages[k] \o <<"\n">> \o pages_text(pages, k + 1)

\* A text extractor that swallows the failure and returns no text.
extract_or_empty(pdf_content) ==
    IF pdf_content.readable
    THEN [ok |-> TRUE, text |-> pages_text(pdf_content.pages, 1)]
    ELSE [ok |-> TRUE, text |-> <<>>]

extract_all_text(pdf_content) ==
    IF pdf_content.readable
    THEN [ok |-> TRUE, text |-> pages_text(pdf_content.pages, 1)]
    ELSE [ok |-> FALSE,
          error |-> Chars("Critical error in PyMuPDF text extraction: ")
                        \o pdf_content.cause]

(***************************************************************************)
(* The model tier of parse_pdf_with_llm: the reply of the transport, the   *)
(* parsed content, and the sanitising loop.                                *)
(***************************************************************************)
JNull == [t |-> "null"]
JStr(str) == [t |-> "str", s |-> Chars(str)]
JInt(n) == [t |-> "int", n |-> n]
JBool(b) == [t |-> "bool", b |-> b]
JList == [t |-> "list"]
JObject(items) == [t |-> "object", items |-> items]
JInvalid == [t |-> "invalid"]

Failure(kind) == [kind |-> kind]
Content(json) == [kind |-> "content", json |-> json]

RECURSIVE NatToStr(_)
NatToStr(n) ==
    LET digit == Chars("0123456789")[(n % 10) + 1]
    IN  IF n < 10 THEN <<digit>> ELSE NatToStr(n \div 10) \o <<digit>>

\* str(value) for the values a JSON object holds.
StrOf(value) ==
    CASE value.t = "str" -> value.s
      [] value.t = "int" ->
            IF value.n < 0 THEN <<"-">> \o NatToStr(-value.n) ELSE NatToStr(value.n)
      [] value.t = "bool" -> IF value.b THEN Chars("True") ELSE Chars("False")
      [] value.t = "null" -> Chars("None")

Raised(type) == [raised |-> TRUE, type |-> type]

\* Lines 88-94: what the try block makes of the transport's reply, up to
\* json.loads and the call of job_info.items().
model_reply(rep) ==
    CASE rep.kind = "transport_error" -> Raised("ConnectionError")
      [] rep.kind = "timeout" -> Raised("Timeout")
      [] rep.kind = "http_error" -> Raised("HTTPError")
      [] rep.kind = "body_not_json" -> Raised("JSONDecodeError")
      [] rep.kind = "body_not_object" -> Raised("AttributeError")
      [] rep.kind = "choice_without_message" -> Raised("KeyError")
      [] rep.kind = "choices_not_list" -> Raised("TypeError")
      [] rep.kind = "no_choices" -> Raised("ValueError")
      [] rep.kind = "empty_content" -> Raised("ValueError")
      [] rep.kind = "content" ->
            IF rep.json.t = "invalid" THEN Raised("JSONDecodeError")
            ELSE IF rep.json.t # "object" THEN Raised("AttributeError")
            ELSE [raised |-> FALSE, job_info |-> rep.json.items]

\* A sanitising loop that forgets the None test.
sanitize_value_str_only(value) == StrOf(value)

\* Lines 98-102: one value of the sanitising loop.
sanitize_value(value) ==
    IF value.t # "null" THEN StrOf(value) ELSE NotSpecified

\* A sanitising loop that sets raw_text first, so a raw_text key of the
\* payload overwrites it.
sanitize_raw_text_first(items, text) ==
    [key \in DOMAIN items \cup {"raw_text"} |->
        IF key \in DOMAIN items THEN sanitize_value(items[key])
        ELSE Take(text, RawTextLimit)]

\* Lines 97-105: the dict the model tier returns.
sanitize(items, text) ==
    [key \in DOMAIN items \cup {"raw_text"} |->
        IF key = "raw_text" THEN Take(text, RawTextLimit)
        ELSE sanitize_value(items[key])]

\* An except clause that catches only the ValueError family.
catches_value_errors(type) == type \in {"ValueError", "JSONDecodeError"}

\* The exceptions that do not derive from Exception.
BaseOnlyExceptions ==
    {"BaseException", "BaseExceptionGroup", "CancelledError", "GeneratorExit",
     "KeyboardInterrupt", "SystemExit"}

\* Line 109: except Exception catches every exception that derives from
\* Exception.
catches(type) == type \notin BaseOnlyExceptions

(***************************************************************************)
(* os.getenv("OPENROUTER_API_KEY", default) in JobPDFParser.__init__.      *)
(***************************************************************************)
Unset == [set |-> FALSE]
EnvValue(str) == [set |-> TRUE, value |-> str]

\* The default key written in the source (abbreviated).
DefaultApiKey == "sk-or-v1-17f8...6e71"

getenv(value, default) == IF value.set THEN value.value ELSE default

\* load_dotenv() (main.py line 9) gives the variable the value of the .env
\* file unless the environment already holds one.
load_dotenv(environment, file) == IF environment.set THEN environment ELSE file

(***************************************************************************)
(* The boundary: the JobData built from the dict, the extraction summary   *)
(* and the two response shapes of parse_pdf.                               *)
(***************************************************************************)
SchemaFields == Fields \cup {"raw_text"}

\* JobData built from the keys of d: the schema's fields, None for a key d
\* lacks; other keys of d are ignored.
JobData(d) ==
    [f \in SchemaFields |-> IF f \in DOMAIN d THEN Some(d[f]) ELSE None]

extraction_summary(file, d, now) ==
    [file_name |-> file.filename,
     file_size_bytes |-> file.size,
     text_length |-> IF "raw_text" \in DOMAIN d THEN Len(d["raw_text"]) ELSE 0,
     extracted_fields |->
        [field \in DOMAIN d \ {"raw_text"} |-> Strip(d[field]) # <<>>],
     parsing_timestamp |-> now]

SuccessResponse(file, d, now) ==
    [kind |-> "summary", success |-> TRUE, data |-> Some(JobData(d)),
     error |-> None, extraction_summary |-> Some(extraction_summary(file, d, now))]

ErrorResponse(message) ==
    [kind |-> "summary", success |-> FALSE, data |-> None,
     error |-> Some(Chars("Error parsing PDF: ") \o message),
     extraction_summary |-> None]

HTTPException(status, detail) ==
    [kind |-> "http_error", status_code |-> status, detail |-> detail]

\* What a caller of extract_job_data_from_pdf gets: the JobData, or the
\* exception that left the parser.
ReturnedJobData(d) == [kind |-> "job_data", data |-> JobData(d)]

RaisedToCaller(message) == [kind |-> "raised", error |-> message]

NoResponse == [kind |-> "none"]


(***************************************************************************)
(* Inputs: uploads, documents and replies of the model transport.          *)
(***************************************************************************)
Requests == 1..NumRequests

Upload(filename, content_type, size, content) ==
    [filename |-> filename, content_type |-> content_type, size |-> size,
     content |-> content]

PdfUpload(content) == Upload("notice.pdf", "application/pdf", 2048, content)

\* pdf_content handed to extract_job_data_from_pdf: bytes, without a file
\* name or a content type.
Bytes(size, content) == Upload("", "", size, content)

HttpCall(file) == [via |-> "http", upload |-> file]

DirectCall(file) == [via |-> "direct", upload |-> file]

Pieces ==
    << Chars(" "),
       Chars("\n"),
       <<" ", "\t", VerticalTab, "\n", " ", UnitSeparator>>,
       Chars("RECRUITMENT OF "),
       Chars("Not specified"),
       Chars("Total Vacancies: 12"),
       Chars("grand total - 7"),
       Chars("Ministry of Rail\n5.0 AGE LIMIT 18 years"),
       Chars("CEN NO. 1/24 (ALP) PAY LEVEL 6"),
       Chars("\n7.0 Closing date for submission of online application\n31.12.2025"),
       Chars("recruitment for the post of \n Clerk apply online through the website  rrb.gov.in") >>

\* The page texts made of at most k pieces.
RECURSIVE PageTexts(_)
PageTexts(k) ==
    IF k = 0 THEN {<<>>}
    ELSE LET shorter == PageTexts(k - 1)
         IN  shorter \cup {t \o Pieces[i] : t \in shorter, i \in 1..Len(Pieces)}

Pad(n) == [i \in 1..n |-> "x"]

\* Documents around the raw_text limit, and one beyond the prompt limit.
LongDocs ==
    {Document(<<a \o Pad(PadLen) \o b>>) :
        a \in {<<>>, Chars("  ")},
        b \in {<<>>, Chars("  x"), Chars("xxxxxxx"),
               Chars(" RECRUITMENT OF Clerk\n\n7.0")}}
    \cup {Document(<<Pad(PromptLimit + PadLen)>>)}

TextDocs ==
    {Document(<<>>)}
    \cup {Document(<<t>>) : t \in PageTexts(MaxPieces)}
    \cup {Document(<<Pieces[i], Pieces[j]>>) : i, j \in {1, 4, 5}}
    \cup LongDocs

FullNotice ==
    Document(<< Chars("Government of India\nRECRUITMENT OF Clerk\nTotal Vacancies: 12"),
                Chars("5.0 AGE LIMIT 18 to 30\n6.0 PAY LEVEL 6\n7.0 Closing date for submission of application\n31.12.2025\napply online through the website rrb.gov.in") >>)

SmallDocs ==
    {Unreadable, Document(<<>>), Document(<<Chars("   \n ")>>),
     Document(<<<<VerticalTab>>>>),
     Document(<<Chars("a") \o <<VerticalTab>> \o Chars(" \n b")>>),
     Document(<<Chars("CEN NO. 1/24 ( ) apply online through the website ")
                 \o <<FileSeparator>> \o Chars("q")>>),
     Document(<<Chars("RECRUITMENT OF Not specified")>>), FullNotice}

BadUploads ==
    {Upload("", "application/pdf", 2048, FullNotice),
     Upload("notice.txt", "text/plain", 2048, FullNotice),
     Upload("big.pdf", "application/pdf", MaxUploadBytes + 1, FullNotice)}

SmallUploads ==
    BadUploads
    \cup {PdfUpload(d) : d \in SmallDocs}
    \cup {Upload("limit.pdf", "application/pdf", MaxUploadBytes, FullNotice)}

FullPayload ==
    [job_title |-> JStr("Clerk"), department |-> JStr("Ministry of Railways"),
     vacancies |-> JStr("12"), eligibility |-> JStr("18 to 30 years"),
     salary |-> JStr("Pay Level 6"), application_deadline |-> JStr("31.12.2025"),
     application_url |-> JStr("rrb.gov.in")]

NullAndNumber == [job_title |-> JNull, salary |-> JInt(500)]

OddPayload ==
    [job_title |-> JStr(""), department |-> [t |-> "str", s |-> <<VerticalTab, " ">>],
     vacancies |-> JInt(-12), remote |-> JBool(TRUE),
     raw_text |-> JStr("text the model made up"), salary |-> JNull]

Payloads ==
    {FullPayload, NullAndNumber, OddPayload, [x \in {} |-> JNull]}

FailureKinds ==
    {"transport_error", "timeout", "http_error", "body_not_json",
     "body_not_object", "choice_without_message", "choices_not_list",
     "no_choices", "empty_content"}

AllReplies ==
    {Failure(kind) : kind \in FailureKinds}
    \cup {Content(JInvalid), Content(JNull), Content(JList), Content(JInt(7))}
    \cup {Content(JObject(p)) : p \in Payloads}

TextReplies == {Failure("transport_error"), Content(JObject(OddPayload))}

\* What datetime.now().isoformat() may return.
Timestamps == {"2025-12-31T23:59:59.999999", "2026-01-01T00:00:00"}

DotenvKeys == {Unset, EnvValue("sk-or-v1-from-dotenv")}

\* The variable in the environment the process starts with, and in .env.
Environment(variable, file) == [env |-> variable, file |-> file]

NoEnvKey == {Environment(Unset, file) : file \in DotenvKeys}

Environments ==
    NoEnvKey
    \cup {Environment(EnvValue(""), EnvValue("sk-or-v1-from-dotenv")),
          Environment(EnvValue("sk-or-v1-from-env"), Unset)}

\* Contents handed to extract_job_data_from_pdf.
ShortNotice == Document(<<Chars("RECRUITMENT OF Clerk\nTotal Vacancies: 12")>>)

DirectContents ==
    {Bytes(2048, ShortNotice), Bytes(2048, Unreadable),
     Bytes(MaxUploadBytes + 1, ShortNotice)}

\* The wait times the specification gives as its example of a schedule.
BackoffSchedule == <<1, 2, 4, 8, 16>>

(***************************************************************************)
(* State after construction: routes.py builds one JobPDFParser when it is  *)
(* imported, which main.py does before it calls load_dotenv(); a call that *)
(* arrived has not started yet.                                            *)
(***************************************************************************)
InitWith(environments, clients, calls, replies) ==
    /\ \E e \in environments :
          /\ env_key = e.env
          /\ dotenv = e.file
    /\ booted = FALSE
    /\ openrouter_api_key = getenv(env_key, DefaultApiKey)
    /\ \E c \in [clients -> calls] :
          /\ upload = [r \in Requests |->
                          IF r \in clients THEN c[r].upload
                          ELSE (CHOOSE x \in calls : TRUE).upload]
          /\ via = [r \in Requests |-> IF r \in clients THEN c[r].via ELSE "http"]
    \* Without a key no reply is ever asked for: one stands for all.
    /\ \E a \in [clients -> replies] :
          reply = [r \in Requests |->
                      IF r \in clients /\ openrouter_api_key # ""
                      THEN a[r] ELSE CHOOSE x \in replies : TRUE]
    /\ parser_key = [r \in Requests |-> None]
    /\ pc = [r \in Requests |-> IF r \in clients THEN "arrived" ELSE "absent"]
    /\ loop = 0
    /\ raw_text = [r \in Requests |-> <<>>]
    /\ prompt_text = [r \in Requests |-> <<>>]
    /\ attempts = [r \in Requests |-> 0]
    /\ slept = [r \in Requests |-> 0]
    /\ tier = [r \in Requests |-> "none"]
    /\ job_info = [r \in Requests |-> None]
    /\ exc = [r \in Requests |-> None]
    /\ response = [r \in Requests |-> NoResponse]

\* One call, every upload and every reply.
Init ==
    InitWith(Environments, {1},
             {HttpCall(u) : u \in SmallUploads}
                 \cup {DirectCall(b) : b \in DirectContents},
             AllReplies)

\* One call, documents that exercise the text handling.
InitText ==
    InitWith(NoEnvKey, {1},
             {HttpCall(u) : u \in BadUploads}
                 \cup {HttpCall(PdfUpload(d)) : d \in TextDocs \cup {Unreadable}}
                 \cup {DirectCall(b) : b \in DirectContents},
             TextReplies)

\* Every client makes a call.
InitConcurrent ==
    InitWith(NoEnvKey, Requests,
             {HttpCall(PdfUpload(FullNotice)), HttpCall(PdfUpload(Unreadable)),
              HttpCall(Upload("", "application/pdf", 2048, FullNotice)),
              HttpCall(Upload("big.pdf", "application/pdf", MaxUploadBytes + 1,
                              FullNotice)),
              DirectCall(Bytes(2048, ShortNotice)),
              DirectCall(Bytes(2048, Unreadable))},
             {Failure("timeout"), Content(JObject(FullPayload))})


(***************************************************************************)
(* parse_pdf (routes.py), parse_pdf_with_llm and extract_job_data_from_pdf  *)
(* (pdf_parser.py), one action per step of a call. The handler is a        *)
(* coroutine on the server's event loop: it yields at `await file.read()`  *)
(* only, and from the call of the parser to its response it holds the      *)
(* loop. extract_job_data_from_pdf runs on its caller's thread.            *)
(***************************************************************************)
\* main.py line 9: load_dotenv(), after the routes were imported.
LoadDotenv ==
    /\ ~booted
    /\ booted' = TRUE
    /\ env_key' = load_dotenv(env_key, dotenv)
    /\ UNCHANGED <<dotenv, openrouter_api_key, via, parser_key, upload, reply, pc,
                   loop, raw_text, prompt_text, attempts, slept, tier, job_info,
                   exc, response>>

Finish(r, resp) ==
    /\ response' = [response EXCEPT ![r] = resp]
    /\ pc' = [pc EXCEPT ![r] = "done"]

\* routes.py lines 18-24: the checks before the body is read.
Start(r) ==
    /\ via[r] = "http"
    /\ booted
    /\ pc[r] = "arrived"
    /\ loop = 0
    /\ IF upload[r].filename = ""
       THEN Finish(r, HTTPException(400, "No file uploaded"))
       ELSE IF upload[r].content_type # "application/pdf"
       THEN Finish(r, HTTPException(400, "Only PDF files are allowed"))
       ELSE /\ pc' = [pc EXCEPT ![r] = "reading"]
            /\ UNCHANGED response
    /\ UNCHANGED <<env_key, dotenv, booted, openrouter_api_key, via,
                   parser_key, upload, reply, loop, raw_text,
                   prompt_text, attempts, slept, tier, job_info, exc>>

\* routes.py lines 24-29: the body is read, its size checked, the parser called.
ReadDone(r) ==
    /\ pc[r] = "reading"
    /\ loop = 0
    /\ IF upload[r].size > MaxUploadBytes
       THEN /\ Finish(r, HTTPException(400, "File size too large (max 10MB)"))
            /\ UNCHANGED <<loop, parser_key>>
       ELSE /\ pc' = [pc EXCEPT ![r] = "extract"]
            /\ parser_key' = [parser_key EXCEPT ![r] = Some(openrouter_api_key)]
            /\ loop' = r
            /\ UNCHANGED response
    /\ UNCHANGED <<env_key, dotenv, booted, openrouter_api_key, via,
                   upload, reply, raw_text,
                   prompt_text, attempts, slept, tier, job_info, exc>>

\* pdf_parser.py lines 160-161: extract_job_data_from_pdf builds a parser of
\* its own, which reads the environment now, and calls it on the content
\* as it is.
extract_job_data_from_pdf(r) ==
    /\ via[r] = "direct"
    /\ pc[r] = "arrived"
    /\ parser_key' = [parser_key EXCEPT
                         ![r] = Some(getenv(env_key, DefaultApiKey))]
    /\ pc' = [pc EXCEPT ![r] = "extract"]
    /\ UNCHANGED <<env_key, dotenv, booted, openrouter_api_key, via,
                   upload, reply,
                   loop, raw_text, prompt_text, attempts, slept, tier, job_info,
                   exc, response>>

\* pdf_parser.py line 47: raw_text = self.extract_all_text(pdf_content),
\* outside the try block.
ExtractText(r) ==
    /\ pc[r] = "extract"
    /\ LET text == extract_all_text(upload[r].content)
       IN  IF text.ok
           THEN /\ raw_text' = [raw_text EXCEPT ![r] = text.text]
                /\ pc' = [pc EXCEPT ![r] = "check_key"]
                /\ UNCHANGED exc
           ELSE /\ exc' = [exc EXCEPT ![r] = Some(text.error)]
                /\ pc' = [pc EXCEPT ![r] = "raised"]
                /\ UNCHANGED raw_text
    /\ UNCHANGED <<env_key, dotenv, booted, openrouter_api_key, via,
                   parser_key, upload, reply, loop, prompt_text,
                   attempts, slept, tier, job_info, response>>

\* pdf_parser.py lines 49-85: the key test, then the prompt and the payload.
CheckKey(r) ==
    /\ pc[r] = "check_key"
    /\ IF parser_key[r].v = ""
       THEN /\ pc' = [pc EXCEPT ![r] = "fallback"]
            /\ UNCHANGED prompt_text
       ELSE /\ prompt_text' = [prompt_text EXCEPT ![r] = Take(raw_text[r], PromptLimit)]
            /\ pc' = [pc EXCEPT ![r] = "try_model"]
    /\ UNCHANGED <<env_key, dotenv, booted, openrouter_api_key, via,
                   parser_key, upload, reply, loop, raw_text,
                   attempts, slept, tier, job_info, exc, response>>

\* pdf_parser.py line 88: requests.post is entered; the thread blocks in it.
CallModel(r) ==
    /\ pc[r] = "try_model"
    /\ attempts' = [attempts EXCEPT ![r] = @ + 1]
    /\ pc' = [pc EXCEPT ![r] = "in_model_call"]
    /\ UNCHANGED <<env_key, dotenv, booted, openrouter_api_key, via,
                   parser_key, upload, reply, loop, raw_text,
                   prompt_text, slept, tier, job_info, exc, response>>

\* A handler that waits one time unit before it falls back.
after_model_failure_wait(r) ==
    /\ pc' = [pc EXCEPT ![r] = "fallback"]
    /\ slept' = [slept EXCEPT ![r] = @ + 1]

\* pdf_parser.py lines 109-111: the except clause prints and calls
\* parse_pdf_with_regex at once; there is no wait and no second call.
after_model_failure(r) ==
    /\ pc' = [pc EXCEPT ![r] = "fallback"]
    /\ UNCHANGED slept

\* pdf_parser.py lines 88-111: the call returns or raises.
ModelReturns(r) ==
    /\ pc[r] = "in_model_call"
    /\ LET out == model_reply(reply[r])
       IN  IF ~out.raised
           THEN /\ job_info' = [job_info EXCEPT
                                   ![r] = Some(sanitize(out.job_info, raw_text[r]))]
                /\ tier' = [tier EXCEPT ![r] = "model"]
                /\ pc' = [pc EXCEPT ![r] = "returned"]
                /\ UNCHANGED <<slept, exc>>
           ELSE IF catches(out.type)
           THEN /\ after_model_failure(r)
                /\ UNCHANGED <<job_info, tier, exc>>
           ELSE /\ exc' = [exc EXCEPT ![r] = Some(Chars(out.type))]
                /\ pc' = [pc EXCEPT ![r] = "raised"]
                /\ UNCHANGED <<job_info, tier, slept>>
    /\ UNCHANGED <<env_key, dotenv, booted, openrouter_api_key, via,
                   parser_key, upload, reply, loop, raw_text,
                   prompt_text, attempts, response>>

\* pdf_parser.py lines 113-154: parse_pdf_with_regex, which extracts the
\* text again.
FallbackRegex(r) ==
    /\ pc[r] = "fallback"
    /\ LET text == extract_all_text(upload[r].content)
       IN  IF text.ok
           THEN /\ job_info' = [job_info EXCEPT ![r] = Some(regex_job_info(text.text))]
                /\ tier' = [tier EXCEPT ![r] = "regex"]
                /\ pc' = [pc EXCEPT ![r] = "returned"]
                /\ UNCHANGED exc
           ELSE /\ exc' = [exc EXCEPT ![r] = Some(text.error)]
                /\ pc' = [pc EXCEPT ![r] = "raised"]
                /\ UNCHANGED <<job_info, tier>>
    /\ UNCHANGED <<env_key, dotenv, booted, openrouter_api_key, via,
                   parser_key, upload, reply, loop, raw_text,
                   prompt_text, attempts, slept, response>>

\* routes.py lines 31-49: the summary with the time of the clock, the
\* JobData and the response.
Respond(r) ==
    /\ via[r] = "http"
    /\ pc[r] = "returned"
    /\ \E now \in Timestamps :
          Finish(r, SuccessResponse(upload[r], job_info[r].v, now))
    /\ loop' = 0
    /\ UNCHANGED <<env_key, dotenv, booted, openrouter_api_key, via,
                   parser_key, upload, reply, raw_text,
                   prompt_text, attempts, slept, tier, job_info, exc>>

\* routes.py lines 53-58: except Exception builds the failure response.
HandleException(r) ==
    /\ via[r] = "http"
    /\ pc[r] = "raised"
    /\ Finish(r, ErrorResponse(exc[r].v))
    /\ loop' = 0
    /\ UNCHANGED <<env_key, dotenv, booted, openrouter_api_key, via,
                   parser_key, upload, reply, raw_text,
                   prompt_text, attempts, slept, tier, job_info, exc>>

\* pdf_parser.py line 162: return JobData(**job_info_dict).
ReturnJobData(r) ==
    /\ via[r] = "direct"
    /\ pc[r] = "returned"
    /\ Finish(r, ReturnedJobData(job_info[r].v))
    /\ UNCHANGED <<env_key, dotenv, booted, openrouter_api_key, via, parser_key,
                   upload, reply, loop, raw_text, prompt_text, attempts, slept,
                   tier, job_info, exc>>

\* pdf_parser.py lines 160-162 hold no try: what parse_pdf_with_llm raises
\* reaches the caller.
RaiseToCaller(r) ==
    /\ via[r] = "direct"
    /\ pc[r] = "raised"
    /\ Finish(r, RaisedToCaller(exc[r].v))
    /\ UNCHANGED <<env_key, dotenv, booted, openrouter_api_key, via, parser_key,
                   upload, reply, loop, raw_text, prompt_text, attempts, slept,
                   tier, job_info, exc>>

Step(r) ==
    \/ Start(r)
    \/ ReadDone(r)
    \/ extract_job_data_from_pdf(r)
    \/ ExtractText(r)
    \/ CheckKey(r)
    \/ CallModel(r)
    \/ ModelReturns(r)
    \/ FallbackRegex(r)
    \/ Respond(r)
    \/ HandleException(r)
    \/ ReturnJobData(r)
    \/ RaiseToCaller(r)

Next ==
    \/ LoadDotenv
    \/ \E r \in Requests : Step(r)

Spec == Init /\ [][Next]_vars

\* A handler that runs keeps running: the event loop resumes it, and the
\* transport call returns or raises within its timeout.
FairSpec == Spec /\ WF_vars(Next)

SpecText == InitText /\ [][Next]_vars

SpecConcurrent == InitConcurrent /\ [][Next]_vars


(***************************************************************************)
(* Properties.                                                             *)
(***************************************************************************)
Returned(r) == pc[r] \in {"returned", "done"} /\ ~job_info[r].isNone

\* The upload passes the three checks of the boundary.
Accepted(r) ==
    /\ upload[r].filename # ""
    /\ upload[r].content_type = "application/pdf"
    /\ upload[r].size <= MaxUploadBytes

\* A parse error or a transport error, as opposed to a reply without content.
Transient(rep) ==
    \/ rep.kind \in {"transport_error", "timeout", "http_error", "body_not_json",
                    "body_not_object", "choice_without_message",
                    "choices_not_list"}
    \/ rep.kind = "content" /\ rep.json.t # "object"

AllWhitespace(s) == \A i \in 1..Len(s) : s[i] \in Whitespace

IsPrefixOfLength(raw, source, n) ==
    /\ Len(raw) = n
    /\ \A i \in 1..n : raw[i] = source[i]

\* The number a decimal numeral denotes.
RECURSIVE DecimalValue(_)
DecimalValue(s) ==
    IF s = <<>> THEN 0
    ELSE IF Head(s) = "-" THEN 0 - DecimalValue(Tail(s))
    ELSE 10 * DecimalValue(SubSeq(s, 1, Len(s) - 1))
         + (CHOOSE d \in 0..9 : Chars("0123456789")[d + 1] = s[Len(s)])

IsString(v) == v \in Seq(STRING)

\* The call ended with the record of its dict: the success response of the
\* boundary, or the JobData handed to a direct caller.
EndedWithRecord(r) ==
    /\ pc[r] = "done"
    /\ ~job_info[r].isNone
    /\ exc[r].isNone
    /\ IF via[r] = "http"
       THEN response[r].kind = "summary" /\ response[r].success
       ELSE response[r] = ReturnedJobData(job_info[r].v)

\* C1: once the text of a request is extracted, its parse call ends with a
\* dict, whatever the transport replies: the parser raises only when the
\* extraction itself failed, a dict once returned is the one dict of the
\* call, and every call that reached the key test reaches Done with a dict.
C1_AlwaysOneRecord ==
    /\ [](\A r \in Requests : pc[r] = "raised" => ~upload[r].content.readable)
    /\ [][\A r \in Requests : ~job_info[r].isNone => job_info'[r] = job_info[r]]_vars
    /\ \A r \in Requests : (pc[r] = "check_key") ~> EndedWithRecord(r)

C1_Witness ==
    \E r \in Requests :
        /\ pc[r] = "done" /\ reply[r].kind = "transport_error"
        /\ attempts[r] = 1 /\ tier[r] = "regex"
        /\ via[r] = "http" /\ response[r].success

\* C2: after transient failures only, the call is done after as many model
\* attempts as the backoff schedule has slots.
C2_AttemptsEqualSchedule ==
    \A r \in Requests :
        pc[r] = "done" /\ attempts[r] > 0 /\ Transient(reply[r])
            => attempts[r] = Len(BackoffSchedule)

\* C3: a reply without usable content sends the handler straight to the
\* regex tier: one model call, no wait, and the dict is the regex tier's.
C3_SafetyBlockFallsBack ==
    \A r \in Requests :
        reply[r].kind \in {"empty_content", "no_choices"} /\ attempts[r] > 0
            => /\ attempts[r] = 1
               /\ slept[r] = 0
               /\ pc[r] \in {"in_model_call", "fallback", "returned", "done"}
               /\ Returned(r) => tier[r] = "regex"

C3_Witness ==
    \E r \in Requests :
        /\ reply[r].kind = "empty_content" /\ pc[r] = "returned"
        /\ tier[r] = "regex" /\ attempts[r] = 1 /\ slept[r] = 0

\* C4: with no API key in the environment, nor in the .env file, the
\* transport is never invoked.
C4_NoKeyNoCall ==
    \A r \in Requests : ~env_key.set /\ ~dotenv.set => attempts[r] = 0

\* C5: every returned dict holds each of the seven fields as a non-empty
\* string.
C5_AllFieldsFilled ==
    \A r \in Requests :
        Returned(r)
            => \A f \in Fields :
                  /\ f \in DOMAIN job_info[r].v
                  /\ job_info[r].v[f] # <<>>

\* C6: raw_text is the first min(1000, length) characters of its source:
\* the extracted text on the model tier, the cleaned text on the regex tier.
C6_RawTextIsPrefix ==
    \A r \in Requests :
        pc[r] = "returned"
            => \A source \in {IF tier[r] = "model" THEN raw_text[r]
                              ELSE clean_text(raw_text[r])} :
                  IsPrefixOfLength(job_info[r].v["raw_text"], source,
                      IF Len(source) < RawTextLimit THEN Len(source)
                      ELSE RawTextLimit)

C6_Witness ==
    \E r \in Requests :
        /\ pc[r] = "returned" /\ tier[r] = "model"
        /\ Len(raw_text[r]) > PromptLimit
        /\ Len(prompt_text[r]) = PromptLimit
        /\ "raw_text" \in DOMAIN reply[r].json.items
        /\ Len(job_info[r].v["raw_text"]) = RawTextLimit

\* C7: on the model tier every value of the payload becomes its string
\* form and every null the sentinel; {job_title: null, salary: 500} gives
\* "Not specified" and "500".
C7_Sanitized ==
    \A r \in Requests :
        tier[r] = "model"
            => /\ \A key \in DOMAIN reply[r].json.items \ {"raw_text"} :
                    /\ reply[r].json.items[key].t = "null"
                          => job_info[r].v[key] = NotSpecified
                    /\ reply[r].json.items[key].t = "str"
                          => job_info[r].v[key] = reply[r].json.items[key].s
                    /\ reply[r].json.items[key].t = "int"
                          => DecimalValue(job_info[r].v[key])
                                = reply[r].json.items[key].n
                    /\ reply[r].json.items[key].t = "bool"
                          => job_info[r].v[key]
                                = IF reply[r].json.items[key].b
                                  THEN Chars("True") ELSE Chars("False")
               /\ \A key \in DOMAIN job_info[r].v : IsString(job_info[r].v[key])
               /\ reply[r].json.items = NullAndNumber
                    => /\ job_info[r].v["job_title"] = NotSpecified
                       /\ job_info[r].v["salary"] = Chars("500")

C7_Witness ==
    \E r \in Requests :
        /\ pc[r] = "returned" /\ tier[r] = "model"
        /\ reply[r].json.items = NullAndNumber
        /\ job_info[r].v["salary"] = Chars("500")

\* The patterns of pats that match the cleaned text.
Matching(pats, cleaned) == {k \in 1..Len(pats) : Search(pats[k], cleaned).ok}

\* C8 as stated: a field is the sentinel exactly when none of its patterns
\* matches.
C8_SentinelIffNoMatch ==
    \A r \in Requests :
        pc[r] = "returned" /\ tier[r] = "regex"
            => \A cleaned \in {clean_text(raw_text[r])} :
                  \A f \in Fields :
                      job_info[r].v[f] = NotSpecified
                          <=> Matching(patterns[f], cleaned) = {}

\* C8 as amended: a field is the sentinel when none of its patterns matches
\* and otherwise the normalised capture of the first pattern that does
\* (which may itself read "Not specified"); text that is all whitespace
\* gives the sentinel in every field and an empty raw_text.
C8_FirstMatchingPattern ==
    \A r \in Requests :
        pc[r] = "returned" /\ tier[r] = "regex"
            => /\ \A cleaned \in {clean_text(raw_text[r])} :
                    \A f \in Fields :
                        \A hits \in {Matching(patterns[f], cleaned)} :
                            IF hits = {}
                            THEN job_info[r].v[f] = NotSpecified
                            ELSE \A match \in {Search(patterns[f][Least(hits)], cleaned)} :
                                    job_info[r].v[f]
                                        = CollapseWhitespace(Group1(cleaned, match))
               /\ AllWhitespace(raw_text[r])
                    => /\ \A f \in Fields : job_info[r].v[f] = NotSpecified
                       /\ job_info[r].v["raw_text"] = <<>>

C8_Witness ==
    \E r \in Requests :
        /\ pc[r] = "returned" /\ tier[r] = "regex"
        /\ Matching(patterns["vacancies"], clean_text(raw_text[r])) = {1, 2}
        /\ job_info[r].v["vacancies"] = Chars("12")
        /\ job_info[r].v["salary"] = NotSpecified

\* C9: when the text extraction fails, neither tier runs and no dict is
\* made; the extractor's exception leaves the parser as it was raised, the
\* boundary answers success false with the error and no data, and a direct
\* caller gets the exception.
C9_ExtractionFailurePropagates ==
    \A r \in Requests :
        ~upload[r].content.readable
            => /\ pc[r] \notin {"check_key", "try_model", "in_model_call",
                                "fallback", "returned"}
               /\ attempts[r] = 0
               /\ tier[r] = "none"
               /\ job_info[r].isNone
               /\ pc[r] = "raised"
                    => exc[r] = Some(Chars("Critical error in PyMuPDF text extraction: ")
                                        \o upload[r].content.cause)
               /\ pc[r] = "done" /\ via[r] = "http" /\ Accepted(r)
                    => /\ response[r].success = FALSE
                       /\ response[r].data = None
                       /\ response[r].error = Some(Chars("Error parsing PDF: ") \o exc[r].v)
               /\ pc[r] = "done" /\ via[r] = "direct"
                    => response[r]
                          = RaisedToCaller(Chars("Critical error in PyMuPDF text extraction: ")
                                              \o upload[r].content.cause)

C9_Witness ==
    \E r \in Requests :
        /\ pc[r] = "done" /\ ~upload[r].content.readable
        /\ via[r] = "http" /\ Accepted(r)
        /\ response[r].success = FALSE /\ ~response[r].error.isNone

\* C10: a request blocked in its model call does not keep another request
\* at the boundary from taking its next step.
C10_OthersProgress ==
    \A r1, r2 \in Requests :
        /\ r1 # r2 /\ via[r1] = "http" /\ via[r2] = "http"
        /\ pc[r1] = "in_model_call" /\ pc[r2] \in {"arrived", "reading"}
        => ENABLED Step(r2)


====
